---- MODULE Spec2Model ----
(***************************************************************************)
(* Model of the aishe command-line client: the HTTP client of the RAG      *)
(* server (src/src/api_client.py, RAGAPIClient) and the interactive        *)
(* session that drives it (src/src/cli.py, RAGCLI.run).                    *)
(*                                                                         *)
(* Strings the program inspects character by character (console lines,     *)
(* the base URL) are sequences of one-character strings.  Messages are      *)
(* sequences of text fragments, one per literal or interpolated field.     *)
(***************************************************************************)
EXTENDS Integers, Sequences, FiniteSets, TLC

VARIABLES
    base_url,     \* RAGAPIClient.base_url, after normalisation
    timeout,      \* RAGAPIClient.timeout
    close_calls,  \* number of calls of RAGAPIClient.close so far
    probe,        \* how the health check on startup ended: "" before it, else
                  \* "None" or the class of the exception it ended with
    pc,           \* where the process is: "HealthCheck", "Prompt", "Ask", "Exited", "Library"
    exit_code,    \* status the process exits with (0 unless set otherwise)
    ended_by,     \* what ended the process ("" while it runs)
    stdin_eof,    \* the console input stream has reached end of input
    line,         \* what the last call of input() did: the line it returned, or what it raised
    question,     \* the local variable question of RAGCLI.run
    call,         \* the last call of a client operation and how it ended
    requests,     \* number of HTTP requests issued so far
    asks,         \* number of calls of ask_question so far
    reads,        \* number of calls of input() so far
    display       \* what the last step printed

vars == << base_url, timeout, close_calls, probe, pc, exit_code, ended_by, stdin_eof,
           line, question, call, requests, asks, reads, display >>

----------------------------------------------------------------------------
(* Bounds of the model. *)

\* longest console line drawn from the small alphabet
MaxLen == 2
\* console reads per session, and client calls per library use
MaxReads == 2
\* longest sources array of a response
MaxSources == 2

----------------------------------------------------------------------------
(* Python strings: str.strip, str.rstrip, str.lower. *)

Whitespace == {" ", "\t"}

RECURSIVE lstrip(_)
lstrip(s) ==
    IF s # <<>> /\ Head(s) \in Whitespace THEN lstrip(Tail(s)) ELSE s

RECURSIVE rstrip(_, _)
rstrip(s, chars) ==
    IF s # <<>> /\ s[Len(s)] \in chars THEN rstrip(SubSeq(s, 1, Len(s) - 1), chars) ELSE s

strip(s) == rstrip(lstrip(s), Whitespace)

lower_char(c) ==
    CASE c = "Q" -> "q"
      [] c = "U" -> "u"
      [] c = "I" -> "i"
      [] c = "T" -> "t"
      [] c = "E" -> "e"
      [] c = "X" -> "x"
      [] c = "A" -> "a"
      [] OTHER -> c

lower(s) == [i \in 1..Len(s) |-> lower_char(s[i])]

\* None, and the truth value of an optional string
None == "None"
Truthy(v) == v # None /\ v # ""

----------------------------------------------------------------------------
(* Exception classes: the client's own, the built-in ones and httpx's. *)

Superclass(cls) ==
    CASE cls = "ServerNotReachableError" -> "APIClientError"
      [] cls = "ServerError"             -> "APIClientError"
      [] cls = "APIClientError"          -> "Exception"
      [] cls = "JSONDecodeError"         -> "ValueError"
      [] cls = "UnicodeEncodeError"      -> "ValueError"
      [] cls = "ValueError"              -> "Exception"
      [] cls = "KeyError"                -> "Exception"
      [] cls = "TypeError"               -> "Exception"
      [] cls = "EOFError"                -> "Exception"
      [] cls = "ConnectError"            -> "TransportError"
      [] cls = "ConnectTimeout"          -> "TimeoutException"
      [] cls = "ReadTimeout"             -> "TimeoutException"
      [] cls = "TimeoutException"        -> "TransportError"
      [] cls = "ReadError"               -> "TransportError"
      [] cls = "TransportError"          -> "Exception"
      [] cls = "HTTPStatusError"         -> "Exception"
      [] cls = "Exception"               -> "BaseException"
      [] cls = "KeyboardInterrupt"       -> "BaseException"
      [] cls = "SystemExit"              -> "BaseException"
      [] OTHER                           -> "object"

RECURSIVE IsInstance(_, _)
IsInstance(cls, of) ==
    IF cls = of THEN TRUE
    ELSE IF cls \in {"object", "None"} THEN FALSE
    ELSE IsInstance(Superclass(cls), of)

\* The error kinds of the client's contract, by exception class.
Kind(cls) ==
    IF IsInstance(cls, "ServerNotReachableError") THEN "ServerNotReachable"
    ELSE IF IsInstance(cls, "ServerError") THEN "ServerError"
    ELSE IF IsInstance(cls, "APIClientError") THEN "ClientError"
    ELSE IF IsInstance(cls, "ValueError") THEN "InvalidInput"
    ELSE "Unclassified"

FourKinds == {"InvalidInput", "ServerNotReachable", "ServerError", "ClientError"}

----------------------------------------------------------------------------
(* What the network and the server can do to one request. *)

\* a string the console encoding cannot represent (a lone surrogate)
Unencodable == "\\ud800"

Invalid == [kind |-> "invalid"]
Array == [kind |-> "array"]
Object(fields) == [kind |-> "object", fields |-> fields]

\* a response body: its raw text and what json() makes of it
TextBody == [text |-> "<html>Bad Gateway</html>", data |-> Invalid]
ArrayBody == [text |-> "[]", data |-> Array]
JsonBody(fields) == [text |-> "{..}", data |-> Object(fields)]

HealthObjects ==
    { [status |-> "healthy", ollama_accessible |-> TRUE],
      [status |-> "healthy", ollama_accessible |-> TRUE, message |-> "ready"],
      [status |-> "degraded", ollama_accessible |-> FALSE, message |-> "Ollama is down"],
      [status |-> "degraded", ollama_accessible |-> FALSE, message |-> ""],
      [status |-> "degraded", ollama_accessible |-> FALSE],
      [status |-> Unencodable, ollama_accessible |-> TRUE],
      [status |-> "healthy"],
      [ollama_accessible |-> TRUE] }

SourceObjects ==
    { [number |-> 1, title |-> "France", url |-> "http://x"],
      [number |-> 2, title |-> "Paris", url |-> "http://y"],
      [number |-> 1, title |-> "France"] }

SourceArrays == UNION { [1..n -> SourceObjects] : n \in 0..MaxSources }

AnswerObjects ==
    { [answer |-> "Paris", sources |-> s, processing_time |-> "0.5"] : s \in SourceArrays }
    \cup { [answer |-> Unencodable, sources |-> <<>>, processing_time |-> "0.5"],
           [answer |-> "Paris", sources |-> <<>>],
           [answer |-> "Paris", processing_time |-> "0.5"],
           [sources |-> <<>>, processing_time |-> "0.5"] }

ErrorObjects == { [detail |-> "Question too long"], [error |-> "failed"] }

Statuses == {200, 302, 404, 500}

Response(status, body) == [kind |-> "Response", status |-> status, body |-> body]
NoResponse(kind) == [kind |-> kind, status |-> 0, body |-> [text |-> "", data |-> Invalid]]

\* what client.get / client.post raise instead of returning a response
TransportFailures ==
    { NoResponse(k) : k \in {"ConnectError", "ConnectTimeout", "ReadTimeout",
                             "ReadError", "KeyboardInterrupt"} }

ErrorResponses ==
    { Response(st, b) : st \in Statuses \ {200},
                        b \in {TextBody, ArrayBody} \cup { JsonBody(o) : o \in ErrorObjects } }

HealthNet ==
    TransportFailures \cup ErrorResponses
    \cup { Response(200, b) : b \in {TextBody, ArrayBody} \cup { JsonBody(o) : o \in HealthObjects } }

AskNet ==
    TransportFailures \cup ErrorResponses
    \cup { Response(200, b) : b \in {TextBody, ArrayBody} \cup { JsonBody(o) : o \in AnswerObjects } }

----------------------------------------------------------------------------
(* RAGAPIClient. *)

DefaultURL == <<"http://localhost:8000">>

\* URLs as fragments; "/" is the path separator character
URLs ==
    { DefaultURL,
      <<"http://localhost:8000", "/">>,
      <<"http://rag:9000", "/", "v2", "/", "/">> }

\* an optional value is a sequence of length 0 (None) or 1
Optional(S) == {<<>>} \cup { <<x>> : x \in S }

getenv(env, default) == IF env = <<>> THEN default ELSE env[1]

\* __init__ as it would be without the rstrip
init_base_url_raw(arg, env) ==
    IF arg = <<>> THEN getenv(env, DefaultURL) ELSE arg[1]

\* __init__: the normalised base URL of a client built with argument arg
\* while AISHE_API_URL is env
init_base_url(arg, env) ==
    LET url == IF arg = <<>> THEN getenv(env, DefaultURL) ELSE arg[1]
    IN rstrip(url, {"/"})

\* how a call ended: exc = "None" and a value, or an exception class and its text
NoValue == [none |-> TRUE]
Return(value) == [exc |-> "None", msg |-> <<>>, value |-> value]
Raise(cls, msg) == [exc |-> cls, msg |-> msg, value |-> NoValue]

\* response.raise_for_status() then response.json()
is_success(status) == status >= 200 /\ status <= 299

receive(net) ==
    IF net.kind # "Response" THEN Raise(net.kind, <<net.kind>>)
    ELSE IF ~ is_success(net.status) THEN Raise("HTTPStatusError", <<ToString(net.status)>>)
    ELSE IF net.body.data.kind = "invalid" THEN Raise("JSONDecodeError", <<"Expecting value">>)
    ELSE Return(net.body.data)

\* data[key] for each key in turn: the first one missing raises KeyError
RECURSIVE missing_key(_, _)
missing_key(fields, keys) ==
    IF keys = <<>> THEN <<>>
    ELSE IF Head(keys) \notin DOMAIN fields THEN <<Head(keys)>>
    ELSE missing_key(fields, Tail(keys))

get(fields, key) == IF key \in DOMAIN fields THEN fields[key] ELSE None

\* the body of the try statement of check_health
check_health_body(net) ==
    LET r == receive(net) IN
    IF r.exc # "None" THEN r
    ELSE IF r.value.kind # "object" THEN Raise("TypeError", <<"list indices must be integers">>)
    ELSE LET data == r.value.fields
             miss == missing_key(data, <<"status", "ollama_accessible">>)
         IN IF miss # <<>> THEN Raise("KeyError", miss)
            ELSE Return([status |-> data["status"],
                         ollama_accessible |-> data["ollama_accessible"],
                         message |-> get(data, "message")])

check_health(url, t, net) ==
    LET r == check_health_body(net) IN
    IF r.exc = "None" THEN r
    ELSE IF IsInstance(r.exc, "ConnectError") THEN
        Raise("ServerNotReachableError",
              <<"Cannot connect to server at ">> \o url
                  \o <<". ", "Make sure the server is running.">>)
    ELSE IF IsInstance(r.exc, "TimeoutException") THEN
        Raise("ServerNotReachableError", <<"Request to ">> \o url \o <<" timed out.">>)
    ELSE IF IsInstance(r.exc, "HTTPStatusError") THEN
        Raise("ServerError", <<"Server returned error: ", ToString(net.status)>>)
    ELSE IF IsInstance(r.exc, "Exception") THEN
        Raise("APIClientError", <<"Unexpected error: ">> \o r.msg)
    ELSE r

\* check_health as it would be with a retry after the first request
check_health_requests_retry(url) ==
    << [method |-> "GET", url |-> url \o <<"/health">>, json |-> <<>>],
       [method |-> "GET", url |-> url \o <<"/health">>, json |-> <<>>] >>

\* requests check_health issues
check_health_requests(url) == << [method |-> "GET", url |-> url \o <<"/health">>, json |-> <<>>] >>

\* the guard as it would be without the strip: not question
question_is_empty_unstripped(q) == q = <<>>

\* the guard of ask_question: not question or not question.strip()
question_is_empty(q) == q = <<>> \/ strip(q) = <<>>

\* the first key a source of the array lacks, in the order the code reads them
RECURSIVE sources_missing_key(_)
sources_missing_key(srcs) ==
    IF srcs = <<>> THEN <<>>
    ELSE LET miss == missing_key(Head(srcs), <<"number", "title", "url">>)
         IN IF miss # <<>> THEN miss ELSE sources_missing_key(Tail(srcs))

\* the conversion as it would be if it built the list back to front
convert_sources_reversed(srcs) ==
    [i \in 1..Len(srcs) |->
        [number |-> srcs[Len(srcs) + 1 - i]["number"],
         title |-> srcs[Len(srcs) + 1 - i]["title"],
         url |-> srcs[Len(srcs) + 1 - i]["url"]]]

convert_sources(srcs) ==
    [i \in 1..Len(srcs) |->
        [number |-> srcs[i]["number"], title |-> srcs[i]["title"], url |-> srcs[i]["url"]]]

\* the body of the try statement of ask_question
ask_question_body(net) ==
    LET r == receive(net) IN
    IF r.exc # "None" THEN r
    ELSE IF r.value.kind # "object" THEN Raise("TypeError", <<"list indices must be integers">>)
    ELSE LET data == r.value.fields IN
         IF "sources" \notin DOMAIN data THEN Raise("KeyError", <<"sources">>)
         ELSE IF sources_missing_key(data["sources"]) # <<>>
              THEN Raise("KeyError", sources_missing_key(data["sources"]))
         ELSE LET miss == missing_key(data, <<"answer", "processing_time">>)
              IN IF miss # <<>> THEN Raise("KeyError", miss)
                 ELSE Return([answer |-> data["answer"],
                              sources |-> convert_sources(data["sources"]),
                              processing_time |-> data["processing_time"]])

\* str(error_data) of a JSON object without "detail"
dict_str(fields) ==
    IF "error" \in DOMAIN fields THEN "{'error': 'failed'}" ELSE "{}"

\* error_detail as it would be if the handler never replaced its initial value
error_detail_unknown(body) == "Unknown error"

\* error_detail of the HTTPStatusError handler
error_detail(body) ==
    IF body.data.kind = "object"
    THEN IF "detail" \in DOMAIN body.data.fields
         THEN body.data.fields["detail"]
         ELSE dict_str(body.data.fields)
    ELSE body.text

\* the clauses as they would be with the timeout text of check_health
ask_question_handlers_health_text(r, url, t, net) ==
    IF IsInstance(r.exc, "ConnectError") THEN
        Raise("ServerNotReachableError",
              <<"Cannot connect to server at ">> \o url
                  \o <<". ", "Make sure the server is running with: nix run .#server">>)
    ELSE IF IsInstance(r.exc, "TimeoutException") THEN
        Raise("ServerNotReachableError", <<"Request to ">> \o url \o <<" timed out.">>)
    ELSE IF IsInstance(r.exc, "HTTPStatusError") THEN
        Raise("ServerError",
              <<"Server error (", ToString(net.status), "): ", error_detail(net.body)>>)
    ELSE IF IsInstance(r.exc, "ValueError") THEN r
    ELSE IF IsInstance(r.exc, "Exception") THEN
        Raise("APIClientError", <<"Unexpected error: ">> \o r.msg)
    ELSE r

\* the clauses as they would be if the last one caught every BaseException
ask_question_handlers_catch_all(r, url, t, net) ==
    IF IsInstance(r.exc, "ConnectError") THEN
        Raise("ServerNotReachableError",
              <<"Cannot connect to server at ">> \o url
                  \o <<". ", "Make sure the server is running with: nix run .#server">>)
    ELSE IF IsInstance(r.exc, "TimeoutException") THEN
        Raise("ServerNotReachableError",
              <<"Request timed out after ", ToString(t), " seconds. ",
                "The question might be too complex.">>)
    ELSE IF IsInstance(r.exc, "HTTPStatusError") THEN
        Raise("ServerError",
              <<"Server error (", ToString(net.status), "): ", error_detail(net.body)>>)
    ELSE IF IsInstance(r.exc, "ValueError") THEN r
    ELSE Raise("APIClientError", <<"Unexpected error: ">> \o r.msg)

\* the except clauses of ask_question, in order
ask_question_handlers(r, url, t, net) ==
    IF IsInstance(r.exc, "ConnectError") THEN
        Raise("ServerNotReachableError",
              <<"Cannot connect to server at ">> \o url
                  \o <<". ", "Make sure the server is running with: nix run .#server">>)
    ELSE IF IsInstance(r.exc, "TimeoutException") THEN
        Raise("ServerNotReachableError",
              <<"Request timed out after ", ToString(t), " seconds. ",
                "The question might be too complex.">>)
    ELSE IF IsInstance(r.exc, "HTTPStatusError") THEN
        Raise("ServerError",
              <<"Server error (", ToString(net.status), "): ", error_detail(net.body)>>)
    ELSE IF IsInstance(r.exc, "ValueError") THEN r
    ELSE IF IsInstance(r.exc, "Exception") THEN
        Raise("APIClientError", <<"Unexpected error: ">> \o r.msg)
    ELSE r

ask_question(url, t, q, net) ==
    IF question_is_empty(q) THEN Raise("ValueError", <<"Question cannot be empty">>)
    ELSE LET r == ask_question_body(net) IN
         IF r.exc = "None" THEN r ELSE ask_question_handlers(r, url, t, net)

\* the request as it would be with the question sent as given
ask_question_requests_untrimmed(url, q) ==
    IF question_is_empty(q) THEN <<>>
    ELSE << [method |-> "POST", url |-> url \o <<"/api/v1/ask">>,
             json |-> <<[question |-> q]>>] >>

\* requests ask_question issues
ask_question_requests(url, q) ==
    IF question_is_empty(q) THEN <<>>
    ELSE << [method |-> "POST", url |-> url \o <<"/api/v1/ask">>,
             json |-> <<[question |-> strip(q)]>>] >>

----------------------------------------------------------------------------
(* RAGCLI: what it prints. *)

Rule == "----------"

print_banner ==
    << "==========", "Wikipedia RAG Question Answering System", "==========",
       "Ask questions and get answers based on Wikipedia articles.",
       "Type 'quit' or 'exit' to stop.", "==========", "" >>

\* the two lines print_result prints for each source, in order
RECURSIVE source_lines(_)
source_lines(srcs) ==
    IF srcs = <<>> THEN <<>>
    ELSE << "[" \o ToString(Head(srcs).number) \o "] " \o Head(srcs).title,
            "    " \o Head(srcs).url >> \o source_lines(Tail(srcs))

\* print_result as it would be without the test of result.sources
print_result_always_sources(result) ==
    IF result.answer = Unencodable
    THEN [out |-> <<Rule, "ANSWER:", Rule>>, exc |-> "UnicodeEncodeError"]
    ELSE [out |-> <<Rule, "ANSWER:", Rule, result.answer>>
                  \o <<Rule, "SOURCES:", Rule>> \o source_lines(result.sources)
                  \o <<Rule>>,
          exc |-> "None"]

\* print_result: the lines printed, and the exception print raised, if any
print_result(result) ==
    IF result.answer = Unencodable
    THEN [out |-> <<Rule, "ANSWER:", Rule>>, exc |-> "UnicodeEncodeError"]
    ELSE [out |-> <<Rule, "ANSWER:", Rule, result.answer>>
                  \o (IF result.sources # <<>>
                      THEN <<Rule, "SOURCES:", Rule>> \o source_lines(result.sources)
                      ELSE <<>>)
                  \o <<Rule>>,
          exc |-> "None"]

\* the body of the startup try statement after check_health returned
print_health(health) ==
    IF health.status = "healthy"
    THEN [out |-> <<"Connected to server", "">>, exc |-> "None"]
    ELSE IF health.status = Unencodable
    THEN [out |-> <<>>, exc |-> "UnicodeEncodeError"]
    ELSE [out |-> <<"Server status: " \o health.status>>
                  \o (IF Truthy(health.message) THEN <<"  " \o health.message>> ELSE <<>>)
                  \o <<"">>,
          exc |-> "None"]

----------------------------------------------------------------------------
(* RAGCLI.run. *)

DefaultTimeout == 120

\* status of a process that ends by an uncaught KeyboardInterrupt: 1 from
\* interpreters that report the traceback, 130 from those that re-raise SIGINT
UncaughtInterruptStatus == {1, 130}

EncodeErrorText == <<"'utf-8' codec can't encode character">>

\* the startup clauses as they would be without the ServerNotReachableError clause
startup_handler_lenient(cls) ==
    IF IsInstance(cls, "Exception") THEN "continue" ELSE "propagate"

\* the startup clauses as they would be if every client error ended the process
startup_handler_strict(cls) ==
    IF IsInstance(cls, "APIClientError") THEN "exit"
    ELSE IF IsInstance(cls, "Exception") THEN "continue"
    ELSE "propagate"

\* the except clauses of the startup try statement
startup_handler(cls) ==
    IF IsInstance(cls, "ServerNotReachableError") THEN "exit"
    ELSE IF IsInstance(cls, "Exception") THEN "continue"
    ELSE "propagate"

\* the loop's clauses as they would be if an unreachable server ended the loop
loop_handler_fatal(cls) ==
    IF IsInstance(cls, "KeyboardInterrupt") THEN "break"
    ELSE IF IsInstance(cls, "ServerNotReachableError") THEN "break"
    ELSE IF IsInstance(cls, "ServerError") THEN "server_error"
    ELSE IF IsInstance(cls, "APIClientError") THEN "error"
    ELSE IF IsInstance(cls, "Exception") THEN "unexpected"
    ELSE "propagate"

\* the loop's clauses as they would be without the KeyboardInterrupt clause
loop_handler_no_interrupt(cls) ==
    IF IsInstance(cls, "ServerNotReachableError") THEN "server_stopped"
    ELSE IF IsInstance(cls, "ServerError") THEN "server_error"
    ELSE IF IsInstance(cls, "APIClientError") THEN "error"
    ELSE IF IsInstance(cls, "Exception") THEN "unexpected"
    ELSE "propagate"

\* the loop's clauses as they would be if the first clause caught everything
\* that is not an Exception and went on
loop_handler_swallows_interrupt(cls) ==
    IF IsInstance(cls, "ServerNotReachableError") THEN "server_stopped"
    ELSE IF IsInstance(cls, "ServerError") THEN "server_error"
    ELSE IF IsInstance(cls, "APIClientError") THEN "error"
    ELSE "unexpected"

\* the loop's clauses as they would be if end of input ended the loop too
loop_handler_eof_breaks(cls) ==
    IF IsInstance(cls, "KeyboardInterrupt") \/ IsInstance(cls, "EOFError") THEN "break"
    ELSE IF IsInstance(cls, "ServerNotReachableError") THEN "server_stopped"
    ELSE IF IsInstance(cls, "ServerError") THEN "server_error"
    ELSE IF IsInstance(cls, "APIClientError") THEN "error"
    ELSE IF IsInstance(cls, "Exception") THEN "unexpected"
    ELSE "propagate"

\* the except clauses of the try statement in the loop
loop_handler(cls) ==
    IF IsInstance(cls, "KeyboardInterrupt") THEN "break"
    ELSE IF IsInstance(cls, "ServerNotReachableError") THEN "server_stopped"
    ELSE IF IsInstance(cls, "ServerError") THEN "server_error"
    ELSE IF IsInstance(cls, "APIClientError") THEN "error"
    ELSE IF IsInstance(cls, "Exception") THEN "unexpected"
    ELSE "propagate"

\* what a handler of the loop prints for an exception with text msg
loop_handler_output(how, msg) ==
    CASE how = "break" -> <<"", "Goodbye!">>
      [] how = "server_stopped" ->
            <<"Server Error: ">> \o msg
                \o <<"The server may have stopped. Please restart it:", "  nix run .#server">>
      [] how = "server_error" -> <<"Server Error: ">> \o msg
      [] how = "error" -> <<"Error: ">> \o msg
      [] how = "unexpected" -> <<"Unexpected error: ">> \o msg \o <<"Traceback">>
      [] OTHER -> <<>>

exit_commands == { <<"q", "u", "i", "t">>, <<"e", "x", "i", "t">>, <<"q">> }

\* the test as it would be without lower()
is_exit_command_case_sensitive(q) == q \in exit_commands

is_exit_command(q) == lower(q) \in exit_commands

\* lines 82-88 as they would be without the empty-question test
line_action_no_skip(q) ==
    IF is_exit_command(q) THEN "break" ELSE "ask"

\* run, lines 82-88: what the loop does with the trimmed line
line_action(q) ==
    IF is_exit_command(q) THEN "break"
    ELSE IF q = <<>> THEN "continue"
    ELSE "ask"

\* a call of a client operation: its argument, what the network did, how the
\* call ended, the requests it issued, and what printing its result raised
NoCall == [op |-> "none", arg |-> <<>>, net |-> NoResponse("none"), result |-> Return(NoValue),
           requests |-> <<>>, print_exc |-> "None"]

\* the process ends: through sys.exit, by returning from run, or by an
\* exception nothing catches
Exit(code, why) ==
    /\ pc' = "Exited"
    /\ exit_code' = code
    /\ ended_by' = why

Continue(where) ==
    /\ pc' = where
    /\ UNCHANGED << exit_code, ended_by >>

\* run, lines 53-74: the banner and the health check on startup
HealthCheck ==
    /\ pc = "HealthCheck"
    /\ \E net \in HealthNet :
          LET r == check_health(base_url, timeout, net)
              shown == IF r.exc = "None" THEN print_health(r.value)
                       ELSE [out |-> <<>>, exc |-> r.exc]
              msg == IF r.exc = "None" THEN EncodeErrorText ELSE r.msg
              how == IF shown.exc = "None" THEN "none" ELSE startup_handler(shown.exc)
              head == print_banner \o <<"Checking server connection...">> \o shown.out
          IN /\ call' = [op |-> "check_health", arg |-> <<>>, net |-> net, result |-> r,
                         requests |-> check_health_requests(base_url),
                         print_exc |-> IF r.exc = "None" THEN shown.exc ELSE "None"]
             /\ requests' = requests + Len(check_health_requests(base_url))
             /\ probe' = shown.exc
             /\ CASE how = "none" ->
                       /\ display' = head
                       /\ Continue("Prompt")
                  [] how = "exit" ->
                       /\ display' = head \o <<"Error: ">> \o msg
                                       \o <<"Please start the server first:", "  nix run .#server",
                                            "Or set AISHE_API_URL to point to a running server.">>
                       /\ Exit(1, "StartupUnreachable")
                  [] how = "continue" ->
                       /\ display' = head \o <<"Warning: Could not check server health: ">> \o msg
                                       \o <<"Continuing anyway...">>
                       /\ Continue("Prompt")
                  [] OTHER ->
                       /\ display' = head \o <<"Traceback">>
                       /\ \E st \in UncaughtInterruptStatus : Exit(st, "UncaughtInterrupt")
    /\ UNCHANGED << base_url, timeout, close_calls, stdin_eof, line, question, asks, reads >>

\* console lines: every string over a small alphabet, and some longer ones
Alphabet == {" ", "Q"}

LongLines ==
    { <<"q">>, <<"q", "u", "i", "t">>, <<" ", "Q", "U", "I", "T", "\t">>,
      <<"e", "x", "i", "t">>, <<"E", "x", "i", "T", " ">>,
      <<"q", "u", "i", "t", "s">>, <<"e", "x", "i", "t", " ", "a">>, <<"\t", " ">>,
      <<"a">>, <<" ", "a", " ", "b", "\t">> }

Lines == UNION { [1..n -> Alphabet] : n \in 0..MaxLen } \cup LongLines

NoInput == [kind |-> "none", text |-> <<>>]

\* what input() can do: return a line, or raise EOFError or KeyboardInterrupt
ConsoleEvents(eof) ==
    { [kind |-> k, text |-> <<>>] : k \in {"EOFError", "KeyboardInterrupt"} }
    \cup (IF eof THEN {} ELSE { [kind |-> "line", text |-> l] : l \in Lines })

\* how an iteration of the loop ends once a handler is chosen
LoopEnd(how) ==
    CASE how = "break" -> Exit(0, "Interrupt")
      [] how = "propagate" -> \E st \in UncaughtInterruptStatus : Exit(st, "UncaughtInterrupt")
      [] OTHER -> Continue("Prompt")

\* run, lines 79-88 and the handlers: read a line and decide what to do with it
Prompt ==
    /\ pc = "Prompt"
    /\ reads < MaxReads
    /\ \E ev \in ConsoleEvents(stdin_eof) :
          /\ line' = ev
          /\ IF ev.kind = "line"
             THEN LET q == strip(ev.text) IN
                  /\ question' = q
                  /\ stdin_eof' = stdin_eof
                  /\ CASE line_action(q) = "break" ->
                            /\ display' = <<"", "Goodbye!">>
                            /\ Exit(0, "ExitCommand")
                       [] line_action(q) = "continue" ->
                            /\ display' = <<>>
                            /\ Continue("Prompt")
                       [] OTHER ->
                            /\ display' = <<"Searching Wikipedia and generating answer...">>
                            /\ Continue("Ask")
             ELSE LET how == loop_handler(ev.kind) IN
                  /\ question' = question
                  /\ stdin_eof' = (stdin_eof \/ ev.kind = "EOFError")
                  /\ display' = loop_handler_output(how, <<"EOF when reading a line">>)
                  /\ LoopEnd(how)
    /\ reads' = reads + 1
    /\ call' = NoCall
    /\ UNCHANGED << base_url, timeout, close_calls, probe, requests, asks >>

\* run, lines 92-95 and the handlers: ask the question and print the result
Ask ==
    /\ pc = "Ask"
    /\ \E net \in AskNet :
          LET r == ask_question(base_url, timeout, question, net)
              shown == IF r.exc = "None" THEN print_result(r.value)
                       ELSE [out |-> <<>>, exc |-> r.exc]
              msg == IF r.exc = "None" THEN EncodeErrorText ELSE r.msg
              how == IF shown.exc = "None" THEN "none" ELSE loop_handler(shown.exc)
          IN /\ call' = [op |-> "ask_question", arg |-> question, net |-> net, result |-> r,
                         requests |-> ask_question_requests(base_url, question),
                         print_exc |-> IF r.exc = "None" THEN shown.exc ELSE "None"]
             /\ requests' = requests + Len(ask_question_requests(base_url, question))
             /\ display' = shown.out \o loop_handler_output(how, msg)
             /\ LoopEnd(how)
    /\ asks' = asks + 1
    /\ UNCHANGED << base_url, timeout, close_calls, probe, stdin_eof, line, question, reads >>

\* main: RAGCLI() builds the client from the environment, then run() starts
Init ==
    /\ \E env \in Optional(URLs) : base_url = init_base_url(<<>>, env)
    /\ timeout = DefaultTimeout
    /\ close_calls = 0
    /\ probe = ""
    /\ pc = "HealthCheck"
    /\ exit_code = 0
    /\ ended_by = ""
    /\ stdin_eof = FALSE
    /\ line = NoInput
    /\ question = <<>>
    /\ call = NoCall
    /\ requests = 0
    /\ asks = 0
    /\ reads = 0
    /\ display = <<>>

Next == HealthCheck \/ Prompt \/ Ask

Spec == Init /\ [][Next]_vars

----------------------------------------------------------------------------
(* RAGAPIClient used directly, as a context manager, by any caller. *)

Timeouts == {DefaultTimeout, 30}

ClientInit ==
    /\ \E arg \in Optional(URLs), env \in Optional(URLs) : base_url = init_base_url(arg, env)
    /\ timeout \in Timeouts
    /\ close_calls = 0
    /\ probe = ""
    /\ pc = "Library"
    /\ exit_code = 0
    /\ ended_by = ""
    /\ stdin_eof = FALSE
    /\ line = NoInput
    /\ question = <<>>
    /\ call = NoCall
    /\ requests = 0
    /\ asks = 0
    /\ reads = 0
    /\ display = <<>>

\* one call of check_health by the caller
CallCheckHealth ==
    /\ pc = "Library"
    /\ \E net \in HealthNet :
          call' = [op |-> "check_health", arg |-> <<>>, net |-> net,
                   result |-> check_health(base_url, timeout, net),
                   requests |-> check_health_requests(base_url), print_exc |-> "None"]
    /\ requests' = requests + Len(check_health_requests(base_url))
    /\ pc' = "Called"
    /\ UNCHANGED << base_url, timeout, close_calls, probe, exit_code, ended_by, stdin_eof,
                    line, question, asks, reads, display >>

\* one call of ask_question by the caller, with any string
CallAskQuestion ==
    /\ pc = "Library"
    /\ \E q \in Lines, net \in AskNet :
          /\ call' = [op |-> "ask_question", arg |-> q, net |-> net,
                      result |-> ask_question(base_url, timeout, q, net),
                      requests |-> ask_question_requests(base_url, q), print_exc |-> "None"]
          /\ requests' = requests + Len(ask_question_requests(base_url, q))
    /\ asks' = asks + 1
    /\ pc' = "Called"
    /\ UNCHANGED << base_url, timeout, close_calls, probe, exit_code, ended_by, stdin_eof,
                    line, question, reads, display >>

\* __exit__ and close, when the caller leaves the with statement
CallClose ==
    /\ pc \in {"Library", "Called"}
    /\ close_calls' = close_calls + 1
    /\ pc' = "Closed"
    /\ UNCHANGED << base_url, timeout, probe, exit_code, ended_by, stdin_eof, line, question,
                    call, requests, asks, reads, display >>

ClientNext == CallCheckHealth \/ CallAskQuestion \/ CallClose

ClientSpec == ClientInit /\ [][ClientNext]_vars

----------------------------------------------------------------------------
(* The program either way: run as the command-line session, or its client *)
(* used directly.                                                          *)

ProgramInit == Init \/ ClientInit

ProgramNext == Next \/ ClientNext

ProgramSpec == ProgramInit /\ [][ProgramNext]_vars

----------------------------------------------------------------------------
(* Properties. *)

OnlyWhitespace(s) == \A i \in 1..Len(s) : s[i] \in Whitespace

\* the class c is an exception the program treats as a failure (not an interrupt)
IsFailure(c) == c # "None" /\ IsInstance(c, "Exception")

ExitKeywordEntered ==
    /\ line.kind = "line"
    /\ lower(strip(line.text)) \in { <<"q", "u", "i", "t">>, <<"e", "x", "i", "t">>, <<"q">> }

StartupUnreachable == probe # "" /\ Kind(probe) = "ServerNotReachable"

InterruptAtPrompt == line.kind = "KeyboardInterrupt"
InterruptInAsk == call.op = "ask_question" /\ call.net.kind = "KeyboardInterrupt"
InterruptInHealthCheck == call.op = "check_health" /\ call.net.kind = "KeyboardInterrupt"

\* C1: whenever the session has terminated, by an exit keyword, an interrupt
\* or an unreachable server on startup, close has been called exactly once.
C1_ConnectionReleasedOnExit == pc = "Exited" => close_calls = 1

\* C2: a call of ask_question with the empty string or a string of whitespace
\* only fails with InvalidInput and issues no request.
C2_BlankQuestionIsInvalidInput ==
    (call.op = "ask_question" /\ OnlyWhitespace(call.arg))
        => /\ Kind(call.result.exc) = "InvalidInput"
           /\ call.requests = <<>>
           /\ requests = 0

C2_Witness ==
    /\ call.op = "ask_question"
    /\ call.arg = <<"\t", " ">>
    /\ call.net.kind = "Response"
    /\ call.result.exc = "ValueError"

\* C3: a call of ask_question that issued a request never fails with
\* InvalidInput; malformed JSON in a success response is a generic ClientError.
C3_InvalidInputOnlyLocal ==
    (call.op = "ask_question" /\ call.requests # <<>>)
        => Kind(call.result.exc) # "InvalidInput"

\* C4: if the health check on startup raised ServerNotReachable, the session
\* has exited with code 1, and no line was read and no question asked.
C4_UnreachableOnStartupExits ==
    StartupUnreachable
        => /\ pc = "Exited"
           /\ exit_code = 1
           /\ reads = 0
           /\ asks = 0
           /\ line = NoInput

C4_Witness ==
    /\ probe = "ServerNotReachableError"
    /\ call.net.kind = "ReadTimeout"
    /\ pc = "Exited"

C6_OtherProbeOutcomesReachPrompt ==
    ((probe = "None" \/ IsFailure(probe)) /\ ~ StartupUnreachable)
        => /\ call.op = "check_health" => (pc = "Prompt" /\ ended_by = "")
           /\ ended_by \notin {"StartupUnreachable", "UncaughtInterrupt"}

C6_Witness ==
    /\ call.op = "check_health"
    /\ call.result.exc = "ServerError"
    /\ pc = "Prompt"

C8_ExitKeywordTerminates ==
    ExitKeywordEntered
        => /\ pc = "Exited"
           /\ exit_code = 0
           /\ ended_by = "ExitCommand"
           /\ call.op = "none"

C8_Witness ==
    /\ line.text = <<" ", "Q", "U", "I", "T", "\t">>
    /\ pc = "Exited"
    /\ asks = 1

\* C9: a step that reads a line of whitespace only leaves the session at the
\* prompt and calls nothing: no question asked, no request issued.
C9_BlankLineIsNoOp ==
    [][ (reads' = reads + 1 /\ line'.kind = "line" /\ OnlyWhitespace(line'.text))
          => /\ pc' = "Prompt"
             /\ asks' = asks
             /\ requests' = requests
             /\ call'.op = "none"
             /\ exit_code' = exit_code
             /\ ended_by' = ended_by
             /\ close_calls' = close_calls ]_vars

C9_Witness ==
    /\ line.kind = "line"
    /\ line.text = <<" ", " ">>
    /\ call.op = "none"
    /\ pc = "Prompt"
    /\ reads = 2

\* C10: a call of check_health issues exactly one request, a call of
\* ask_question at most one, and a call that fails (an interrupt is not a
\* failure) fails with an exception of one of the four kinds.
C10_NoRetryFourKinds ==
    /\ call.op = "check_health" => Len(call.requests) = 1
    /\ call.op = "ask_question" => Len(call.requests) <= 1
    /\ requests = Len(call.requests)
    /\ IsFailure(call.result.exc) => Kind(call.result.exc) \in FourKinds

C10_Witness ==
    /\ call.op = "check_health"
    /\ call.net.kind = "Response"
    /\ call.net.status = 200
    /\ call.net.body.data.kind = "invalid"
    /\ call.result.exc = "APIClientError"
    /\ Len(call.requests) = 1

\* the text of a message: its fragments, concatenated
RECURSIVE Text(_)
Text(msg) == IF msg = <<>> THEN "" ELSE Head(msg) \o Text(Tail(msg))

Range(msg) == { msg[i] : i \in 1..Len(msg) }

\* part occurs in msg as consecutive fragments
Contains(msg, part) ==
    \E i \in 0..(Len(msg) - Len(part)) : SubSeq(msg, i + 1, i + Len(part)) = part

TimedOut == IsInstance(call.net.kind, "TimeoutException")
Refused == call.net.kind = "ConnectError"
Requested == call.requests # <<>>

\* every base URL and timeout a client can be built with
BaseURLs == { init_base_url(<<u>>, <<>>) : u \in URLs }

TimeoutNets == { n \in TransportFailures : IsInstance(n.kind, "TimeoutException") }

\* C11: a call of check_health whose request timed out fails with
\* ServerNotReachable and its message states the configured timeout.
C11_HealthTimeoutStatesTimeout ==
    (call.op = "check_health" /\ TimedOut)
        => /\ Kind(call.result.exc) = "ServerNotReachable"
           /\ ToString(timeout) \in Range(call.result.msg)

\* C12: on a timeout both operations fail with ServerNotReachable, and the
\* text of the message of ask_question differs from the text of the message of
\* check_health, whatever the base URL and the timeout of either client.
C12_TimeoutMessagesDiffer ==
    /\ (call.op = "check_health" /\ TimedOut)
          => /\ Kind(call.result.exc) = "ServerNotReachable"
             /\ \A u \in BaseURLs, t \in Timeouts, n \in TimeoutNets, q \in LongLines :
                   ~ OnlyWhitespace(q)
                      => Text(call.result.msg) # Text(ask_question(u, t, q, n).msg)
    /\ (call.op = "ask_question" /\ Requested /\ TimedOut)
          => /\ Kind(call.result.exc) = "ServerNotReachable"
             /\ \A u \in BaseURLs, t \in Timeouts, n \in TimeoutNets :
                   Text(call.result.msg) # Text(check_health(u, t, n).msg)

C12_Witness ==
    /\ call.op = "ask_question"
    /\ call.net.kind = "ReadTimeout"
    /\ call.result.exc = "ServerNotReachableError"
    /\ "The question might be too complex." \in Range(call.result.msg)

\* C13: when the connection is refused both operations fail with
\* ServerNotReachable and the message names the base URL of the client, which
\* is the configured URL without its trailing separators.
C13_RefusalNamesAddress ==
    (Refused /\ (call.op = "check_health" \/ (call.op = "ask_question" /\ Requested)))
        => /\ Kind(call.result.exc) = "ServerNotReachable"
           /\ Contains(call.result.msg, base_url)
           /\ base_url # <<>> /\ base_url[Len(base_url)] # "/"
           /\ \E u \in URLs :
                 /\ Len(base_url) <= Len(u)
                 /\ SubSeq(u, 1, Len(base_url)) = base_url
                 /\ \A i \in (Len(base_url) + 1)..Len(u) : u[i] = "/"

C13_Witness ==
    /\ call.op = "ask_question"
    /\ Refused
    /\ base_url = <<"http://rag:9000", "/", "v2">>
    /\ call.result.exc = "ServerNotReachableError"

\* C14: for a response with a status outside 200..299, ask_question fails with
\* ServerError; the message has the status code, and the detail of a JSON
\* object body that has one, or the raw text of a body that is not JSON.
C14_ServerErrorMessage ==
    (call.op = "ask_question" /\ Requested /\ call.net.kind = "Response"
         /\ (call.net.status < 200 \/ call.net.status > 299))
        => /\ call.result.exc = "ServerError"
           /\ ToString(call.net.status) \in Range(call.result.msg)
           /\ (call.net.body.data.kind = "object"
                  /\ "detail" \in DOMAIN call.net.body.data.fields)
                 => call.net.body.data.fields["detail"] \in Range(call.result.msg)
           /\ call.net.body.data.kind = "invalid"
                 => call.net.body.text \in Range(call.result.msg)

C14_Witness ==
    /\ call.op = "ask_question"
    /\ call.net.status = 404
    /\ call.net.body.data = Object([detail |-> "Question too long"])
    /\ call.result.msg = <<"Server error (", "404", "): ", "Question too long">>

\* t is s without the whitespace at its two ends
IsTrimOf(t, s) ==
    \E i \in 0..Len(s) :
        /\ i + Len(t) <= Len(s)
        /\ SubSeq(s, i + 1, i + Len(t)) = t
        /\ \A k \in 1..i : s[k] \in Whitespace
        /\ \A k \in (i + Len(t) + 1)..Len(s) : s[k] \in Whitespace
        /\ t # <<>> => (t[1] \notin Whitespace /\ t[Len(t)] \notin Whitespace)

\* C15: a call of ask_question with a question that is not blank issues one
\* POST whose question payload is the question without the whitespace at its
\* ends; in the session that payload is the trimmed console line.
C15_PayloadIsTrimmedQuestion ==
    (call.op = "ask_question" /\ ~ OnlyWhitespace(call.arg))
        => /\ Len(call.requests) = 1
           /\ call.requests[1].method = "POST"
           /\ Len(call.requests[1].json) = 1
           /\ IsTrimOf(call.requests[1].json[1].question, call.arg)
           /\ line.kind = "line" => IsTrimOf(call.requests[1].json[1].question, line.text)

C15_Witness ==
    /\ call.op = "ask_question"
    /\ call.arg = <<" ", "a", " ", "b", "\t">>
    /\ call.requests[1].json[1].question = <<"a", " ", "b">>

WellFormedSource(src) == {"number", "title", "url"} \subseteq DOMAIN src

\* the response of the last call is a success with a well-formed answer
WellFormedAnswer ==
    /\ call.net.kind = "Response"
    /\ call.net.status = 200
    /\ call.net.body.data.kind = "object"
    /\ {"answer", "sources", "processing_time"} \subseteq DOMAIN call.net.body.data.fields
    /\ \A i \in 1..Len(call.net.body.data.fields["sources"]) :
          WellFormedSource(call.net.body.data.fields["sources"][i])

ReceivedSources == call.net.body.data.fields["sources"]

\* C16: for a well-formed success payload ask_question returns an answer whose
\* sources are as many as the payload's, with the number, title and url of
\* the payload's source at each position.
C16_SourcesRoundTrip ==
    (call.op = "ask_question" /\ Requested /\ WellFormedAnswer)
        => /\ call.result.exc = "None"
           /\ Len(call.result.value.sources) = Len(ReceivedSources)
           /\ \A i \in 1..Len(ReceivedSources) :
                 /\ call.result.value.sources[i].number = ReceivedSources[i]["number"]
                 /\ call.result.value.sources[i].title = ReceivedSources[i]["title"]
                 /\ call.result.value.sources[i].url = ReceivedSources[i]["url"]

C16_Witness ==
    /\ call.op = "ask_question"
    /\ WellFormedAnswer
    /\ Len(ReceivedSources) = 2
    /\ ReceivedSources[1]["number"] = 2
    /\ ReceivedSources[2]["number"] = 1
    /\ call.result.value.sources[1].title = "Paris"

\* C17: a step in which input() is interrupted ends the session with code 0
\* and a farewell, and calls nothing.
C17_InterruptAtPromptTerminates ==
    [][ (reads' = reads + 1 /\ line'.kind = "KeyboardInterrupt")
          => /\ pc' = "Exited"
             /\ exit_code' = 0
             /\ "Goodbye!" \in Range(display')
             /\ asks' = asks
             /\ requests' = requests
             /\ call'.op = "none" ]_vars

C17_Witness ==
    /\ line.kind = "KeyboardInterrupt"
    /\ pc = "Exited"
    /\ exit_code = 0
    /\ asks = 1
    /\ reads = 2

\* C18 as stated: after a call of ask_question that returned, what the
\* session printed has the answer text, whatever the answer is.
C18_AnswerAlwaysDisplayed ==
    (call.op = "ask_question" /\ call.result.exc = "None")
        => /\ pc = "Prompt"
           /\ call.net.body.data.fields["answer"] \in Range(display)

\* C18: after a call of ask_question that returned, the session is at the
\* prompt; what it printed (when printing did not fail) has the answer, and
\* after it either nothing about sources, when there are none, or the heading
\* and, for each source in the order received, "[number] title" and its url.
C18_AnswerDisplay ==
    (call.op = "ask_question" /\ call.result.exc = "None")
        => /\ pc = "Prompt"
           /\ call.print_exc = "None"
                 => LET srcs == ReceivedSources
                        n == Len(srcs)
                    IN /\ display[4] = call.net.body.data.fields["answer"]
                       /\ n = 0 => (Len(display) = 5 /\ "SOURCES:" \notin Range(display))
                       /\ n > 0 =>
                             /\ Len(display) = 8 + 2 * n
                             /\ display[6] = "SOURCES:"
                             /\ \A i \in 1..n :
                                   /\ display[6 + 2 * i] =
                                         "[" \o ToString(srcs[i]["number"]) \o "] "
                                             \o srcs[i]["title"]
                                   /\ display[7 + 2 * i] = "    " \o srcs[i]["url"]

C18_Witness ==
    /\ call.op = "ask_question"
    /\ call.result.exc = "None"
    /\ pc = "Prompt"
    /\ display = <<Rule, "ANSWER:", Rule, "Paris", Rule, "SOURCES:", Rule,
                   "[2] Paris", "    http://y", "[1] France", "    http://x", Rule>>

C20_InterruptInFlight ==
    /\ InterruptInAsk
          => /\ call.result.exc = "KeyboardInterrupt"
             /\ Kind(call.result.exc) \notin FourKinds
             /\ pc = "Exited"
             /\ exit_code = 0
             /\ "ANSWER:" \notin Range(display)
    /\ InterruptInHealthCheck
          => /\ call.result.exc = "KeyboardInterrupt"
             /\ pc = "Exited"
             /\ exit_code # 0
             /\ ended_by = "UncaughtInterrupt"
             /\ reads = 0

C20_Witness ==
    /\ InterruptInAsk
    /\ call.result.exc = "KeyboardInterrupt"
    /\ ended_by = "Interrupt"
    /\ display = <<"", "Goodbye!">>

====
